---- MODULE Spec2Model ----
(***************************************************************************)
(* Model of barkr: the orchestrator (Barkr.read / Barkr.write run by two   *)
(* workers over per-connection queues guarded by one lock), the Connection *)
(* read/write contract with its posted_message_ids filter, and a connector *)
(* (remote platform feed with a min_id cursor).                            *)
(*                                                                         *)
(* Spec is Barkr.start: the read thread and the write thread interleave at *)
(* the granularity of the lock regions and connector calls.  SeqSpec is    *)
(* read() and write() called in turn by one caller, as the tests do.       *)
(* Connection.read is one step: a fetch and its filter that straddle a     *)
(* step of the writer give the result of the same read taken wholly before *)
(* or wholly after that step.                                              *)
(***************************************************************************)
EXTENDS Integers, Sequences, FiniteSets, TLC

\* ---------------------------------------------------------------- bounds
MaxUserPosts == 2      \* posts made by outside users, all platforms together
MaxFeed == 2           \* posts one platform feed can hold
MaxRaises == 1         \* times a connector's _post raises
MaxLinks == 3          \* entries the reply-link map can hold
MaxBody == 2           \* characters of a message body
MaxMedia == 2          \* attachments of a message
MaxModes == 3          \* length of a modes list given to a constructor
MaxArg == 2            \* largest interval or rate limit given to a constructor

\* ------------------------------------------------------------- constants
connections == <<"A", "B">>
Names == {connections[i] : i \in DOMAIN connections}
READ == "READ"
WRITE == "WRITE"
ModeLists == {{READ}, {WRITE}, {READ, WRITE}}
NoLimit == 0           \* write_rate_limit None: falsy in `limit or len(q)`
RateLimits == {NoLimit, 1, 2}
TEXT_ONLY == "TEXT_ONLY"
TEXT_MEDIA == "TEXT_MEDIA"
MessageType == {TEXT_ONLY, TEXT_MEDIA}
PUBLIC == "PUBLIC"
UNLISTED == "UNLISTED"
PRIVATE == "PRIVATE"
DIRECT == "DIRECT"
MessageVisibility == {PUBLIC, UNLISTED, PRIVATE, DIRECT}
None == 0               \* Optional[str] ids: None; a real id is 1 or more
NoException == "none"   \* a call that returned
NotImplementedError == "NotImplementedError"
OtherError == "Exception"
ValueError == "ValueError"
\* the keys and ids direct calls of the reply-link methods are made with
SourceIds == {1, 2}
DestIds == {1, 2}
\* the methods a Connection subclass may override
Overrides == {"_fetch", "_post"}
\* no direct call made yet
NoCall == [op |-> "none"]

\* --------------------------------------------------------------- helpers
Min(a, b) == IF a < b THEN a ELSE b

\* q[:n]
Take(q, n) == SubSeq(q, 1, Min(n, Len(q)))

\* q[n:]
Drop(q, n) == SubSeq(q, Min(n, Len(q)) + 1, Len(q))

Range(q) == {q[i] : i \in DOMAIN q}

IsPrefix(p, q) == Len(p) <= Len(q) /\ SubSeq(q, 1, Len(p)) = p

NoDup(q) == \A i, j \in DOMAIN q : q[i] = q[j] => i = j

\* dict: {}, d.get(key, default), d[key] = value
EmptyDict == [k \in {} |-> None]
Get(d, key, default) == IF key \in DOMAIN d THEN d[key] ELSE default
Put(d, key, value) ==
    [k \in DOMAIN d \cup {key} |-> IF k = key THEN value ELSE d[k]]

VARIABLES
    modes,                \* Connection.modes, per connection name
    write_rate_limit,     \* Barkr.write_rate_limit (NoLimit for None)
    message_queues,       \* Barkr.message_queues
    message_queues_lock,  \* "free", or the worker holding the lock
    posted_message_ids,   \* Connection.posted_message_ids
    platform,             \* the remote feed behind each connector
    min_id,               \* the connector's fetch cursor
    nUser,                \* number of outside posts made so far
    rpc, ri, rmessages,   \* read worker: position, loop index, `messages`
    wpc, wi, max_amount, wmessages, posted_ids,   \* write worker locals
    \* observations of the run
    passed,               \* per connection: messages given to Connection.write
    published,            \* per connection: ids the connector's _post returned
    enq,                  \* per connection: every message appended to its queue
    returned,             \* per connection: every message its read() returned
    written,              \* connections Connection.write was called on, this cycle
    droppedFrom,          \* connections whose queue this cycle has cut
    raisedAt,             \* index whose Connection.write raised this cycle, or 0
    failed,               \* per connection: the slice of its last write, if it raised
    nRaised,              \* number of Connection.write calls that raised
    \* calls made directly on a connection or on Barkr, outside the workers
    implemented,            \* per connection: which of _fetch, _post its class overrides
    supported_message_type, \* Connection.supported_message_type
    message_id_map,         \* ThreadAwareConnection.message_id_map (class attribute)
    call,                   \* the direct call in progress or last returned
    recorded,               \* per (source, id, destination): the id the last
                            \* direct call of store_message_mapping stored
    message_id_map_lock     \* ThreadAwareConnection.message_id_map_lock:
                            \* "free", or the worker holding it

cfg == <<modes, write_rate_limit>>
shared == <<message_queues, message_queues_lock, posted_message_ids>>
remote == <<platform, min_id, nUser>>
reader == <<rpc, ri, rmessages>>
writer == <<wpc, wi, max_amount, wmessages, posted_ids>>
rhist == <<enq, returned>>
whist == <<passed, published, written, droppedFrom, raisedAt, failed,
           nRaised>>
direct == <<implemented, supported_message_type, message_id_map, call,
            recorded, message_id_map_lock>>
vars == <<cfg, shared, remote, reader, writer, rhist, whist, direct>>

\* a Barkr and its connections right after construction, nothing called yet
Fresh ==
    /\ message_queues = [n \in Names |-> <<>>]
    /\ message_queues_lock = "free"
    /\ posted_message_ids = [n \in Names |-> {}]
    /\ platform = [n \in Names |-> <<>>]
    /\ min_id = [n \in Names |-> 0]
    /\ nUser = 0
    /\ rpc = "sleep" /\ ri = 1 /\ rmessages = <<>>
    /\ wpc = "sleep" /\ wi = 1 /\ max_amount = 0 /\ wmessages = <<>>
    /\ posted_ids = <<>>
    /\ passed = [n \in Names |-> <<>>]
    /\ published = [n \in Names |-> {}]
    /\ enq = [n \in Names |-> <<>>]
    /\ returned = [n \in Names |-> <<>>]
    /\ written = {}
    /\ droppedFrom = {}
    /\ raisedAt = 0
    /\ failed = [n \in Names |-> <<>>]
    /\ nRaised = 0
    /\ message_id_map = EmptyDict
    /\ message_id_map_lock = "free"
    /\ recorded = [k \in Names \X SourceIds \X Names |-> None]

\* the connections Barkr.start runs over: both directions implemented
Init ==
    /\ modes \in [Names -> ModeLists]
    /\ write_rate_limit \in RateLimits
    /\ implemented = [n \in Names |-> Overrides]
    /\ supported_message_type = [n \in Names |-> TEXT_ONLY]
    /\ call = NoCall
    /\ Fresh

\* -------------------------------------------------------- Message, Media
\* a str is a sequence of characters; str.strip() removes the whitespace at
\* both ends
Whitespace == {" ", "\n"}
Chars == Whitespace \cup {"a"}

RECURSIVE LStrip(_)
LStrip(s) == IF s # <<>> /\ Head(s) \in Whitespace THEN LStrip(Tail(s)) ELSE s

RECURSIVE RStrip(_)
RStrip(s) ==
    IF s # <<>> /\ s[Len(s)] \in Whitespace
        THEN RStrip(SubSeq(s, 1, Len(s) - 1)) ELSE s

Strip(s) == RStrip(LStrip(s))

\* bool(str)
Bool(s) == s # <<>>

\* a MIME type is a str whose non-blank runs are written as one element
SUPPORTED_MIME_TYPES ==
    {<<"image/jpeg">>, <<"image/png">>, <<"image/gif">>, <<"image/webp">>,
     <<"video/mp4">>, <<"video/quicktime">>}

\* Media.is_valid
is_valid(self) ==
    LET has_bytes == Len(self.content) > 0
        has_mime_type == Bool(Strip(self.mime_type))
    IN  IF ~has_bytes \/ ~has_mime_type
            THEN FALSE
            ELSE self.mime_type \in SUPPORTED_MIME_TYPES

\* faulty variant: valid media makes a message publishable whatever the
\* connection supports
has_content_AnyMedia(self, supported) ==
    IF self.visibility \in {PRIVATE, DIRECT}
        THEN FALSE
        ELSE Bool(Strip(self.message)) \/ Len(SelectSeq(self.media, is_valid)) > 0

\* Message.has_content
has_content(self, supported) ==
    IF self.visibility \in {PRIVATE, DIRECT}
        THEN FALSE
        ELSE LET has_text == Bool(Strip(self.message)) IN
             IF supported = TEXT_MEDIA
                 THEN LET valid_media == SelectSeq(self.media, is_valid)
                          has_media == Len(valid_media) > 0
                      IN  has_text \/ has_media
                 ELSE has_text

\* ------------------------------------------------------------- connector
\* A post on a platform: made by an outside user or by the connector's _post
\* (own); hc is Message.has_content; orig numbers the outside post it copies.
UserPost ==
    /\ nUser < MaxUserPosts
    /\ \E n \in Names, hc \in BOOLEAN :
        /\ Len(platform[n]) < MaxFeed
        /\ platform' = [platform EXCEPT
                ![n] = Append(@, [own |-> FALSE, hc |-> hc, orig |-> nUser + 1])]
    /\ nUser' = nUser + 1
    /\ UNCHANGED <<cfg, direct, shared, min_id, reader, writer, rhist, whist>>

\* A Message: id is the platform-local id, src the connection that read it.
HasContent(m) == platform[m.src][m.id].hc
Orig(m) == platform[m.src][m.id].orig
Own(m) == platform[m.src][m.id].own

\* _fetch: the posts newer than the cursor, oldest first
Fetch(n) ==
    [k \in 1..(Len(platform[n]) - min_id[n]) |-> [id |-> min_id[n] + k, src |-> n]]

\* _post: the feed after publishing msgs, and the ids assigned
PostFeed(feed, msgs) ==
    feed \o [k \in 1..Len(msgs) |-> [own |-> TRUE, hc |-> TRUE, orig |-> Orig(msgs[k])]]

PostIds(feed, msgs) == [k \in 1..Len(msgs) |-> Len(feed) + k]

\* ------------------------------------------------------- Connection.read
\* the new_messages loop: keep the fetched messages whose id is not posted
\* faulty variant: no fetched id is recognised as posted
InPosted_Never(ids, m) == FALSE

InPosted(ids, m) == m.id \in ids

ConnectionRead(ids, fetched) == SelectSeq(fetched, LAMBDA m : ~InPosted(ids, m))

\* posted_message_ids after the new_messages loop: the loop only tests
\* membership
\* faulty variant: an id is taken out of the set once it was seen
IdsAfterRead_OneShot(ids, fetched) == ids \ {fetched[i].id : i \in DOMAIN fetched}

IdsAfterRead(ids, fetched) == ids

\* ------------------------------------------------------------ Barkr.read
\* the locked loop over message_queues: every queue but the source's grows
\* faulty variant: the source's own queue is not excluded
IsOther_Any(name, src) == TRUE

IsOther(name, src) == name # src

\* faulty variant: only the queues of WRITE connections grow
FanOut_WritersOnly(queues, src, msgs) ==
    [name \in DOMAIN queues |->
        IF IsOther(name, src) /\ WRITE \in modes[name]
            THEN queues[name] \o msgs ELSE queues[name]]

\* faulty variant: the new messages are put in front of the queue
FanOut_Prepend(queues, src, msgs) ==
    [name \in DOMAIN queues |->
        IF IsOther(name, src) THEN msgs \o queues[name] ELSE queues[name]]

FanOut(queues, src, msgs) ==
    [name \in DOMAIN queues |->
        IF IsOther(name, src) THEN queues[name] \o msgs ELSE queues[name]]

\* read() returns and wrap_while_true sleeps, then calls it again
\* faulty variant: no `while True`, the worker ends after one call
ReadNextPc_Once == IF ri < Len(connections) THEN "loop" ELSE "done"

ReadNextPc == IF ri < Len(connections) THEN "loop" ELSE "sleep"
ReadNextIndex == IF ri < Len(connections) THEN ri + 1 ELSE 1

\* faulty variant: read() takes the queue lock for the whole cycle
ReadBegin_Locked ==
    /\ rpc = "sleep"
    /\ message_queues_lock = "free"
    /\ message_queues_lock' = "read"
    /\ rpc' = "loop" /\ ri' = 1 /\ rmessages' = <<>>
    /\ UNCHANGED <<cfg, direct, message_queues, posted_message_ids, remote,
                   writer, rhist, whist>>

\* wrap_while_true calls read() again after the sleep
ReadBegin ==
    /\ rpc = "sleep"
    /\ rpc' = "loop" /\ ri' = 1 /\ rmessages' = <<>>
    /\ UNCHANGED <<cfg, direct, shared, remote, writer, rhist, whist>>

\* `continue` for a connection without the READ mode
ReadSkip ==
    /\ rpc = "loop"
    /\ READ \notin modes[connections[ri]]
    /\ rpc' = ReadNextPc /\ ri' = ReadNextIndex
    /\ UNCHANGED <<cfg, direct, shared, remote, rmessages, writer, rhist, whist>>

\* faulty variant: any READ connection is read, not the one the loop is at
ReadConnection_Any ==
    /\ rpc = "loop"
    /\ READ \in modes[connections[ri]]
    /\ \E n \in Names :
        LET new == ConnectionRead(posted_message_ids[n], Fetch(n)) IN
          /\ READ \in modes[n]
          /\ min_id' = [min_id EXCEPT ![n] = Len(platform[n])]
          /\ rmessages' = new
          /\ returned' = [returned EXCEPT ![n] = @ \o new]
          /\ posted_message_ids' = [posted_message_ids EXCEPT
                                       ![n] = IdsAfterRead(@, Fetch(n))]
          /\ IF new # <<>>
                THEN rpc' = "fanout" /\ ri' = ri
                ELSE rpc' = ReadNextPc /\ ri' = ReadNextIndex
    /\ UNCHANGED <<cfg, direct, message_queues, message_queues_lock, platform,
                   nUser, writer, enq, whist>>

\* connection.read(): _fetch returns, the posted ids are filtered out
ReadConnection ==
    /\ rpc = "loop"
    /\ READ \in modes[connections[ri]]
    /\ "_fetch" \in implemented[connections[ri]]
    /\ LET n == connections[ri]
           new == ConnectionRead(posted_message_ids[n], Fetch(n))
       IN /\ min_id' = [min_id EXCEPT ![n] = Len(platform[n])]
          /\ rmessages' = new
          /\ returned' = [returned EXCEPT ![n] = @ \o new]
          /\ posted_message_ids' = [posted_message_ids EXCEPT
                                       ![n] = IdsAfterRead(@, Fetch(n))]
          /\ IF new # <<>>
                THEN rpc' = "fanout" /\ ri' = ri
                ELSE rpc' = ReadNextPc /\ ri' = ReadNextIndex
    /\ UNCHANGED <<cfg, direct, message_queues, message_queues_lock, platform,
                   nUser, writer, enq, whist>>

\* connection.read(): _fetch raises, the error is logged, [] is returned
ReadFetchError ==
    /\ rpc = "loop"
    /\ READ \in modes[connections[ri]]
    /\ "_fetch" \in implemented[connections[ri]]
    /\ rmessages' = <<>>
    /\ rpc' = ReadNextPc /\ ri' = ReadNextIndex
    /\ UNCHANGED <<cfg, direct, shared, remote, writer, rhist, whist>>

\* faulty variant: the NotImplementedError is logged like any other error
ReadRaise_Caught ==
    /\ rpc = "loop"
    /\ READ \in modes[connections[ri]]
    /\ "_fetch" \notin implemented[connections[ri]]
    /\ rmessages' = <<>>
    /\ rpc' = ReadNextPc /\ ri' = ReadNextIndex
    /\ UNCHANGED <<cfg, direct, shared, remote, writer, rhist, whist>>

\* connection.read(): the base class's _fetch raises NotImplementedError,
\* read re-raises it and it leaves Barkr.read and wrap_while_true's loop
ReadRaise ==
    /\ rpc = "loop"
    /\ READ \in modes[connections[ri]]
    /\ "_fetch" \notin implemented[connections[ri]]
    /\ rpc' = "raised"
    /\ UNCHANGED <<cfg, direct, shared, remote, ri, rmessages, writer, rhist,
                   whist>>

\* faulty variant: the append is made without taking the lock
ReadFanOut_Unlocked ==
    /\ rpc = "fanout"
    /\ message_queues' = FanOut(message_queues, connections[ri], rmessages)
    /\ enq' = [name \in Names |->
                 enq[name] \o SubSeq(message_queues'[name],
                                     Len(message_queues[name]) + 1,
                                     Len(message_queues'[name]))]
    /\ rpc' = ReadNextPc /\ ri' = ReadNextIndex
    /\ rmessages' = <<>>
    /\ UNCHANGED <<cfg, direct, message_queues_lock, posted_message_ids, remote,
                   writer, returned, whist>>

\* `with self.message_queues_lock:` the append to the other queues
ReadFanOut ==
    /\ rpc = "fanout"
    /\ message_queues_lock = "free"
    /\ message_queues' = FanOut(message_queues, connections[ri], rmessages)
    /\ enq' = [name \in Names |->
                 enq[name] \o SubSeq(message_queues'[name],
                                     Len(message_queues[name]) + 1,
                                     Len(message_queues'[name]))]
    /\ rpc' = ReadNextPc /\ ri' = ReadNextIndex
    /\ rmessages' = <<>>
    /\ UNCHANGED <<cfg, direct, message_queues_lock, posted_message_ids, remote,
                   writer, returned, whist>>

ReadStep == ReadBegin \/ ReadSkip \/ ReadConnection \/ ReadFetchError \/ ReadFanOut

\* ------------------------------------------------------ Connection.write
\* messages_with_content
WithContent(msgs) == SelectSeq(msgs, HasContent)

\* faulty variant: the ids _post returned are not recorded
RecordPosted_Forget(ids, posted) == ids

\* faulty variant: the set is replaced by the ids of the last publish
RecordPosted_Replace(ids, posted) == Range(posted)

\* self.posted_message_ids.update(posted_ids)
RecordPosted(ids, posted) == ids \cup Range(posted)

\* ----------------------------------------------------------- Barkr.write
\* max_amount = self.write_rate_limit or len(queue)
MaxAmount(limit, q) == IF limit # NoLimit THEN limit ELSE Len(q)

\* message_queues[name][:max_amount]
Slice(q, amount) == Take(q, amount)

\* faulty variant: the whole queue is discarded
Remainder_Clear(q, amount) == <<>>

\* faulty variant: nothing is removed
Remainder_Keep(q, amount) == q

\* message_queues[name][max_amount:]
Remainder(q, amount) == Drop(q, amount)

WriteNextPc == IF wi < Len(connections) THEN "max" ELSE "sleep"
WriteNextIndex == IF wi < Len(connections) THEN wi + 1 ELSE 1

\* wrap_while_true calls write() again after the sleep
WriteBegin ==
    /\ wpc = "sleep"
    /\ wpc' = "max" /\ wi' = 1
    /\ written' = {} /\ droppedFrom' = {} /\ raisedAt' = 0
    /\ UNCHANGED <<cfg, direct, shared, remote, reader, max_amount, wmessages,
                   posted_ids, rhist, passed, published, failed, nRaised>>

\* max_amount is computed before the lock is taken
WriteMeasure ==
    /\ wpc = "max"
    /\ max_amount' = MaxAmount(write_rate_limit, message_queues[connections[wi]])
    /\ wpc' = IF WRITE \in modes[connections[wi]] THEN "slice" ELSE "drop"
    /\ UNCHANGED <<cfg, direct, shared, remote, reader, wi, wmessages, posted_ids,
                   rhist, whist>>

\* first `with self.message_queues_lock:` the lock is free and is taken, and
\* messages = queue[:max_amount]
Sliced == Slice(message_queues[connections[wi]], max_amount)

\* faulty variant: no `if messages:`, connection.write([]) is called
WriteNothing_Calls ==
    /\ wpc = "slice"
    /\ message_queues_lock = "free"
    /\ Sliced = <<>>
    /\ wmessages' = Sliced
    /\ written' = written \cup {connections[wi]}
    /\ wpc' = "drop"
    /\ UNCHANGED <<cfg, direct, shared, remote, reader, wi, max_amount, posted_ids,
                   rhist, passed, published, droppedFrom, raisedAt, failed,
                   nRaised>>

\* `if messages:` is false; the lock is released
WriteNothing ==
    /\ wpc = "slice"
    /\ message_queues_lock = "free"
    /\ Sliced = <<>>
    /\ wmessages' = Sliced
    /\ wpc' = "drop"
    /\ UNCHANGED <<cfg, direct, shared, remote, reader, wi, max_amount, posted_ids,
                   rhist, whist>>

\* connection.write(messages): every message is empty, _post is not called;
\* the lock is released
WriteNoContent ==
    /\ wpc = "slice"
    /\ message_queues_lock = "free"
    /\ Sliced # <<>>
    /\ WithContent(Sliced) = <<>>
    /\ wmessages' = Sliced
    /\ LET n == connections[wi] IN
        /\ passed' = [passed EXCEPT ![n] = @ \o Sliced]
        /\ written' = written \cup {n}
        /\ failed' = [failed EXCEPT ![n] = <<>>]
    /\ wpc' = "drop"
    /\ UNCHANGED <<cfg, direct, shared, remote, reader, wi, max_amount, posted_ids,
                   rhist, published, droppedFrom, raisedAt, nRaised>>

\* connection.write(messages): _post publishes and returns the new ids; the
\* lock stays held until write returns
WritePost ==
    /\ wpc = "slice"
    /\ message_queues_lock = "free"
    /\ WithContent(Sliced) # <<>>
    /\ wmessages' = Sliced
    /\ message_queues_lock' = "write"
    /\ LET n == connections[wi]
           out == WithContent(Sliced)
       IN /\ Len(platform[n]) + Len(out) <= MaxFeed
          /\ platform' = [platform EXCEPT ![n] = PostFeed(@, out)]
          /\ posted_ids' = PostIds(platform[n], out)
          /\ published' = [published EXCEPT ![n] = @ \cup Range(posted_ids')]
          /\ passed' = [passed EXCEPT ![n] = @ \o Sliced]
          /\ written' = written \cup {n}
          /\ failed' = [failed EXCEPT ![n] = <<>>]
    /\ wpc' = "update"
    /\ UNCHANGED <<cfg, direct, message_queues, posted_message_ids, min_id, nUser,
                   reader, wi, max_amount, rhist, droppedFrom, raisedAt,
                   nRaised>>

\* faulty variant: the queue lock is still held when write returns
WriteUpdate_Holds ==
    /\ wpc = "update"
    /\ LET n == connections[wi] IN
        posted_message_ids' =
            [posted_message_ids EXCEPT ![n] = RecordPosted(@, posted_ids)]
    /\ wpc' = "drop"
    /\ UNCHANGED <<cfg, direct, message_queues, message_queues_lock, remote,
                   reader, wi, max_amount, wmessages, posted_ids, rhist, whist>>

\* self.posted_message_ids.update(posted_ids); write returns, lock released
WriteUpdate ==
    /\ wpc = "update"
    /\ LET n == connections[wi] IN
        posted_message_ids' =
            [posted_message_ids EXCEPT ![n] = RecordPosted(@, posted_ids)]
    /\ message_queues_lock' = "free"
    /\ wpc' = "drop"
    /\ UNCHANGED <<cfg, direct, message_queues, remote, reader, wi, max_amount,
                   wmessages, posted_ids, rhist, whist>>

\* faulty variant: only the queue of a WRITE connection is cut
WriteDrop_WritersOnly ==
    /\ wpc = "drop"
    /\ message_queues_lock = "free"
    /\ LET n == connections[wi] IN
        /\ message_queues' =
              [message_queues EXCEPT
                  ![n] = IF WRITE \in modes[n] THEN Remainder(@, max_amount) ELSE @]
        /\ droppedFrom' = IF wi < Len(connections) THEN droppedFrom \cup {n} ELSE {}
        /\ written' = IF wi < Len(connections) THEN written ELSE {}
    /\ wpc' = WriteNextPc /\ wi' = WriteNextIndex
    /\ max_amount' = 0 /\ wmessages' = <<>> /\ posted_ids' = <<>>
    /\ UNCHANGED <<cfg, direct, message_queues_lock, posted_message_ids, remote, reader,
                   rhist, passed, published, raisedAt, failed, nRaised>>

\* second `with self.message_queues_lock:` the queue is cut by max_amount;
\* the iteration's locals are dead from here on, and so are the cycle's
\* observations once write() returns
WriteDrop ==
    /\ wpc = "drop"
    /\ message_queues_lock = "free"
    /\ LET n == connections[wi] IN
        /\ message_queues' =
              [message_queues EXCEPT ![n] = Remainder(@, max_amount)]
        /\ droppedFrom' = IF wi < Len(connections) THEN droppedFrom \cup {n} ELSE {}
        /\ written' = IF wi < Len(connections) THEN written ELSE {}
    /\ wpc' = WriteNextPc /\ wi' = WriteNextIndex
    /\ max_amount' = 0 /\ wmessages' = <<>> /\ posted_ids' = <<>>
    /\ UNCHANGED <<cfg, direct, message_queues_lock, posted_message_ids, remote, reader,
                   rhist, passed, published, raisedAt, failed, nRaised>>

\* faulty variant: the queue is cut although _post raised (a `finally`)
WriteRaise_Drop ==
    /\ wpc = "slice"
    /\ message_queues_lock = "free"
    /\ nRaised < MaxRaises
    /\ WithContent(Sliced) # <<>>
    /\ wmessages' = Sliced
    /\ LET n == connections[wi]
           out == WithContent(Sliced)
       IN /\ \E k \in 0..(Len(out) - 1) :
                /\ Len(platform[n]) + k <= MaxFeed
                /\ platform' = [platform EXCEPT ![n] = PostFeed(@, Take(out, k))]
          /\ passed' = [passed EXCEPT ![n] = @ \o Sliced]
          /\ written' = written \cup {n}
          /\ failed' = [failed EXCEPT ![n] = Sliced]
    /\ wpc' = "raised"
    /\ raisedAt' = wi /\ nRaised' = nRaised + 1
    /\ message_queues' = [message_queues EXCEPT
            ![connections[wi]] = Remainder(@, max_amount)]
    /\ UNCHANGED <<cfg, direct, message_queues_lock, posted_message_ids, min_id, nUser,
                   reader, wi, max_amount, posted_ids, rhist,
                   published, droppedFrom>>

\* faulty variant: the exception is swallowed and the loop goes on
WriteRaise_Continue ==
    /\ wpc = "slice"
    /\ message_queues_lock = "free"
    /\ nRaised < MaxRaises
    /\ WithContent(Sliced) # <<>>
    /\ wmessages' = Sliced
    /\ LET n == connections[wi]
           out == WithContent(Sliced)
       IN /\ \E k \in 0..(Len(out) - 1) :
                /\ Len(platform[n]) + k <= MaxFeed
                /\ platform' = [platform EXCEPT ![n] = PostFeed(@, Take(out, k))]
          /\ passed' = [passed EXCEPT ![n] = @ \o Sliced]
          /\ written' = written \cup {n}
          /\ failed' = [failed EXCEPT ![n] = Sliced]
    /\ wpc' = "drop"
    /\ raisedAt' = wi /\ nRaised' = nRaised + 1
    /\ UNCHANGED <<cfg, direct, shared, min_id, nUser,
                   reader, wi, max_amount, posted_ids, rhist,
                   published, droppedFrom>>

\* connection.write(messages): _post raises after publishing k of the
\* messages; the exception leaves the `with` block (lock released) and
\* write(); the lines that cut the queue are not reached
WriteRaise ==
    /\ wpc = "slice"
    /\ message_queues_lock = "free"
    /\ nRaised < MaxRaises
    /\ WithContent(Sliced) # <<>>
    /\ wmessages' = Sliced
    /\ LET n == connections[wi]
           out == WithContent(Sliced)
       IN /\ \E k \in 0..(Len(out) - 1) :
                /\ Len(platform[n]) + k <= MaxFeed
                /\ platform' = [platform EXCEPT ![n] = PostFeed(@, Take(out, k))]
          /\ passed' = [passed EXCEPT ![n] = @ \o Sliced]
          /\ written' = written \cup {n}
          /\ failed' = [failed EXCEPT ![n] = Sliced]
    /\ wpc' = "raised"
    /\ raisedAt' = wi /\ nRaised' = nRaised + 1
    /\ UNCHANGED <<cfg, direct, shared, min_id, nUser,
                   reader, wi, max_amount, posted_ids, rhist,
                   published, droppedFrom>>

\* a direct caller of write() (no scheduler thread) sees the exception and
\* may call write() again
WriteCallAgain ==
    /\ wpc = "raised"
    /\ wpc' = "sleep"
    /\ UNCHANGED <<cfg, direct, shared, remote, reader, wi, max_amount, wmessages,
                   posted_ids, rhist, whist>>

WriteStep ==
    \/ WriteBegin \/ WriteMeasure \/ WriteNothing
    \/ WriteNoContent \/ WritePost \/ WriteUpdate \/ WriteDrop \/ WriteRaise

\* -------------------------------------------------- ThreadAwareConnection
\* faulty variant: the entry is keyed by the destination's name
store_message_mapping_ByDest(map, name, source_connection, source_id, dest_id) ==
    Put(map, <<name, source_id>>, Put(EmptyDict, name, dest_id))

\* faulty variant: the key's mapping is replaced, not updated
store_message_mapping_Replace(map, name, source_connection, source_id, dest_id) ==
    Put(map, <<source_connection, source_id>>, Put(EmptyDict, name, dest_id))

\* faulty variant: the id is stored for every destination of the key
store_message_mapping_AllDests(map, name, source_connection, source_id, dest_id) ==
    LET key == <<source_connection, source_id>>
        old == Get(map, key, EmptyDict)
    IN  Put(map, key, [d \in DOMAIN old \cup {name} |-> dest_id])

\* faulty variant: a new key evicts the keys stored before
store_message_mapping_OneKey(map, name, source_connection, source_id, dest_id) ==
    LET key == <<source_connection, source_id>>
    IN  IF key \in DOMAIN map
            THEN Put(map, key, Put(map[key], name, dest_id))
            ELSE Put(EmptyDict, key, Put(EmptyDict, name, dest_id))

store_message_mapping(map, name, source_connection, source_id, dest_id) ==
    LET key == <<source_connection, source_id>>
        map1 == IF key \notin DOMAIN map THEN Put(map, key, EmptyDict) ELSE map
    IN  Put(map1, key, Put(map1[key], name, dest_id))

\* faulty variant: the id another destination recorded is used when there
\* is one
resolve_reply_to_id_AnyDest(map, name, source_connection, source_id) ==
    LET key == <<source_connection, source_id>>
        mapping == Get(map, key, EmptyDict)
        others == DOMAIN mapping \ {name}
    IN  IF others # {} THEN mapping[CHOOSE d \in others : TRUE]
                       ELSE Get(mapping, name, None)

\* faulty variant: without a mapping the source's id is returned
resolve_reply_to_id_SourceId(map, name, source_connection, source_id) ==
    LET key == <<source_connection, source_id>>
        mapping == Get(map, key, EmptyDict)
    IN  Get(mapping, name, source_id)

resolve_reply_to_id(map, name, source_connection, source_id) ==
    LET key == <<source_connection, source_id>>
        mapping == Get(map, key, EmptyDict)
        dest_id == Get(mapping, name, None)
    IN  dest_id

\* the reply links a thread-aware connection records once _post returned:
\* one per published message, from its provenance to the id it was given
RECURSIVE RecordLinks(_, _, _, _)
RecordLinks(map, name, messages, ids) ==
    IF messages = <<>> \/ ids = <<>>
        THEN map
        ELSE RecordLinks(
                 store_message_mapping(map, name, Head(messages).src,
                                       Head(messages).id, Head(ids)),
                 name, Tail(messages), Tail(ids))

\* ------------------------- Barkr.write on thread-aware connections
\* the reply links of the messages the last _post published are in the map
LinksStored ==
    message_id_map = RecordLinks(message_id_map, connections[wi],
                                 WithContent(wmessages), posted_ids)

\* `with self.message_id_map_lock:` inside connection.write, which Barkr.write
\* calls with the queue lock held
WriteLinkAcquire ==
    /\ wpc = "update"
    /\ ~LinksStored
    /\ message_id_map_lock = "free"
    /\ message_id_map_lock' = "write"
    /\ UNCHANGED <<cfg, shared, remote, reader, writer, rhist, whist,
                   implemented, supported_message_type, message_id_map, call,
                   recorded>>

\* the links are stored and the `with` block is left
WriteLinkStore ==
    /\ wpc = "update"
    /\ message_id_map_lock = "write"
    /\ message_id_map' = RecordLinks(message_id_map, connections[wi],
                                     WithContent(wmessages), posted_ids)
    /\ message_id_map_lock' = "free"
    /\ UNCHANGED <<cfg, shared, remote, reader, writer, rhist, whist,
                   implemented, supported_message_type, call, recorded>>

\* connection.write returns once the links are stored
LinkedUpdate == LinksStored /\ message_id_map_lock = "free" /\ WriteUpdate

LinkedWriteStep ==
    \/ WriteBegin \/ WriteMeasure \/ WriteNothing
    \/ WriteNoContent \/ WritePost \/ WriteLinkAcquire \/ WriteLinkStore
    \/ LinkedUpdate \/ WriteDrop \/ WriteRaise

\* ------------------------------------------- Connection, called directly
\* what one call of _fetch or _post does: it returns, raises some error, or
\* raises NotImplementedError; the base class's method only raises the latter
FetchOutcomes(n) ==
    IF "_fetch" \in implemented[n]
        THEN {NoException, OtherError, NotImplementedError}
        ELSE {NotImplementedError}

PostOutcomes(n) ==
    IF "_post" \in implemented[n]
        THEN {NoException, OtherError, NotImplementedError}
        ELSE {NotImplementedError}

\* `if ConnectionMode.X not in self.modes: return`
\* faulty variant: the declared modes are not consulted
Declares_Any(self_modes, mode) == TRUE

Declares(self_modes, mode) == mode \in self_modes

\* `if isinstance(e, NotImplementedError): raise`
\* faulty variant: no exception of _fetch is re-raised
Reraised_Never(e) == FALSE

\* faulty variant: every exception of _fetch is re-raised
Reraised_Always(e) == TRUE

Reraised(e) == e = NotImplementedError

\* Connection.read as a whole: the exception that leaves it, the list it
\* returns, and whether _fetch was called; `fetched` is what _fetch returns
\* when it returns, `outcome` what the call of _fetch does
Connection_read(self_modes, ids, fetched, outcome) ==
    IF ~Declares(self_modes, READ)
        THEN [raised |-> NoException, result |-> <<>>, fetch_called |-> FALSE]
    ELSE IF outcome # NoException /\ Reraised(outcome)
        THEN [raised |-> outcome, result |-> <<>>, fetch_called |-> TRUE]
    ELSE IF outcome # NoException
        THEN [raised |-> NoException, result |-> <<>>, fetch_called |-> TRUE]
    ELSE [raised |-> NoException, result |-> ConnectionRead(ids, fetched),
          fetch_called |-> TRUE]

\* messages_with_content
\* faulty variant: nothing is discarded
messages_with_content_All(messages, supported) == messages

messages_with_content(messages, supported) ==
    SelectSeq(messages, LAMBDA message : has_content(message, supported))

\* Connection.write as a whole: the exception that leaves it, whether _post
\* was called and with what, how many of those messages got published and
\* the ids _post returned; a _post that raises has published k of them
Connection_write(self_modes, supported, messages, outcome, k, next_id) ==
    LET with_content == messages_with_content(messages, supported)
        nothing == [raised |-> NoException, post_called |-> FALSE,
                    post_arg |-> <<>>, published |-> 0, posted_ids |-> <<>>]
    IN  IF ~Declares(self_modes, WRITE) THEN nothing
        ELSE IF with_content = <<>> THEN nothing
        ELSE IF outcome # NoException
            THEN [raised |-> outcome, post_called |-> TRUE,
                  post_arg |-> with_content, published |-> k,
                  posted_ids |-> <<>>]
        ELSE [raised |-> NoException, post_called |-> TRUE,
              post_arg |-> with_content, published |-> Len(with_content),
              posted_ids |-> [j \in 1..Len(with_content) |-> next_id + j - 1]]

\* the feed after a connector published n messages handed to it directly
PostDirect(feed, n) ==
    feed \o [j \in 1..n |-> [own |-> TRUE, hc |-> TRUE, orig |-> 0]]

\* the messages direct calls are made with: id and src are the provenance
Hello == [id |-> 1, src |-> "A", visibility |-> PUBLIC,
          message |-> <<"a">>, media |-> <<>>]
Blank == [id |-> 2, src |-> "A", visibility |-> UNLISTED,
          message |-> <<" ">>, media |-> <<>>]
Picture == [id |-> 1, src |-> "B", visibility |-> PUBLIC, message |-> <<>>,
            media |-> <<[mime_type |-> <<"image/png">>, content |-> <<0>>]>>]
Whisper == [id |-> 2, src |-> "B", visibility |-> PRIVATE,
            message |-> <<"a">>, media |-> <<>>]
WriteInputs ==
    {<<>>, <<Blank>>, <<Picture>>, <<Whisper, Hello>>, <<Hello, Picture>>,
     <<Picture, Blank>>}

\* the connection a test constructs and calls
Tested == connections[1]

\* connection.read() called by a test or a script
DirectRead ==
    \E n \in {Tested} :
    \E outcome \in FetchOutcomes(n) :
        LET r == Connection_read(modes[n], posted_message_ids[n], Fetch(n),
                                 outcome)
            fetched == r.fetch_called /\ outcome = NoException
        IN  /\ call' = [op |-> "read", name |-> n, outcome |-> outcome,
                        raised |-> r.raised, result |-> r.result,
                        fetch_called |-> r.fetch_called,
                        fetched |-> IF fetched THEN Fetch(n) ELSE <<>>,
                        after_error |->
                            /\ call.op = "read" /\ call.name = n
                            /\ call.fetch_called
                            /\ call.outcome = OtherError]
            /\ min_id' = IF fetched
                             THEN [min_id EXCEPT ![n] = Len(platform[n])]
                             ELSE min_id
            /\ posted_message_ids' =
                   IF fetched
                       THEN [posted_message_ids EXCEPT
                                ![n] = IdsAfterRead(@, Fetch(n))]
                       ELSE posted_message_ids
            /\ UNCHANGED <<cfg, message_queues, message_queues_lock, platform,
                           nUser, reader, writer, rhist, whist, implemented,
                           supported_message_type, message_id_map, recorded, message_id_map_lock>>

\* connection.write(messages) called by a test or a script
DirectWrite ==
    \E n \in {Tested}, messages \in WriteInputs :
    \E outcome \in PostOutcomes(n), k \in 0..Len(messages) :
        LET r == Connection_write(modes[n], supported_message_type[n],
                                  messages, outcome, k, Len(platform[n]) + 1)
        IN  /\ IF r.raised = NoException
                   THEN k = 0 ELSE k < Len(r.post_arg)
            /\ Len(platform[n]) + r.published <= MaxFeed
            /\ platform' = [platform EXCEPT ![n] = PostDirect(@, r.published)]
            /\ posted_message_ids' = [posted_message_ids EXCEPT
                                         ![n] = RecordPosted(@, r.posted_ids)]
            /\ call' = [op |-> "write", name |-> n, messages |-> messages,
                        outcome |-> outcome, raised |-> r.raised,
                        post_called |-> r.post_called,
                        post_arg |-> r.post_arg, posted_ids |-> r.posted_ids]
            /\ message_id_map' = RecordLinks(message_id_map, n, r.post_arg,
                                              r.posted_ids)
            /\ UNCHANGED <<cfg, message_queues, message_queues_lock, min_id,
                           nUser, reader, writer, rhist, whist, implemented,
                           supported_message_type, recorded, message_id_map_lock>>

\* ------------------------------------------- Barkr.read called directly
\* what the _fetch of each connection does during one call of read(); the
\* _fetch of a connection without the READ mode is not called
FetchPlans ==
    {plan \in [Names -> {NoException, OtherError, NotImplementedError}] :
        \A n \in Names :
            plan[n] \in (IF READ \in modes[n] THEN FetchOutcomes(n)
                                              ELSE {NoException})}

\* Barkr.read as a whole, from the i-th connection on: the exception that
\* leaves it, the queues it leaves, the connections whose read() it called
\* and those whose _fetch returned
RECURSIVE Barkr_read(_, _, _)
Barkr_read(i, queues, plan) ==
    IF i > Len(connections)
        THEN [raised |-> NoException, queues |-> queues, calls |-> <<>>,
              fetched |-> {}]
    ELSE LET n == connections[i] IN
    IF READ \notin modes[n] THEN Barkr_read(i + 1, queues, plan)
    ELSE LET r == Connection_read(modes[n], posted_message_ids[n], Fetch(n),
                                  plan[n])
         IN  IF r.raised # NoException
                 THEN [raised |-> r.raised, queues |-> queues,
                       calls |-> <<n>>, fetched |-> {}]
             ELSE LET rest == Barkr_read(i + 1,
                                  IF r.result # <<>>
                                      THEN FanOut(queues, n, r.result)
                                      ELSE queues,
                                  plan)
                  IN  [rest EXCEPT
                          !.calls = <<n>> \o @,
                          !.fetched = @ \cup (IF plan[n] = NoException
                                                  THEN {n} ELSE {})]

\* barkr.read() called by a test or a script, the write worker not running
DirectBarkrRead ==
    \E plan \in FetchPlans :
        LET r == Barkr_read(1, message_queues, plan)
        IN  /\ message_queues' = r.queues
            /\ min_id' = [n \in Names |->
                            IF n \in r.fetched THEN Len(platform[n])
                                               ELSE min_id[n]]
            /\ enq' = [n \in Names |->
                         enq[n] \o SubSeq(r.queues[n],
                                          Len(message_queues[n]) + 1,
                                          Len(r.queues[n]))]
            /\ returned' = [n \in Names |->
                              IF n \in r.fetched
                                  THEN returned[n] \o
                                       ConnectionRead(posted_message_ids[n],
                                                      Fetch(n))
                                  ELSE returned[n]]
            /\ call' = [op |-> "barkr_read", plan |-> plan,
                        raised |-> r.raised, calls |-> r.calls]
            /\ UNCHANGED <<cfg, message_queues_lock, posted_message_ids,
                           platform, nUser, reader, writer, whist,
                           implemented, supported_message_type,
                           message_id_map, recorded, message_id_map_lock>>

\* --------------------------------------------------- Barkr.write_message
\* `if ConnectionMode.WRITE in connection.modes:`
\* faulty variant: every connection is written to
WritesTo_All(connection_modes) == TRUE

WritesTo(connection_modes) == WRITE \in connection_modes

\* `except Exception as e:` around connection.write([message])
\* faulty variant: the exception is not caught
Handled_None(e) == FALSE

Handled(e) == e # NoException

WriteMessageInputs == {Hello, Blank, Picture}

\* no write_message call is in progress
MessageIdle == call.op # "write_message"

\* the loop of write_message is at a connection
InLoop == call.op = "write_message" /\ ~call.done

\* the loop of write_message moves to the next connection, or ends
Advance(c) == [c EXCEPT !.i = @ + 1, !.done = (c.i = Len(connections))]

\* write_message(message) is called
WriteMessageBegin ==
    /\ MessageIdle
    /\ \E message \in WriteMessageInputs :
        call' = [op |-> "write_message", message |-> message, i |-> 1,
                 done |-> FALSE, calls |-> <<>>, caught |-> {},
                 raised |-> NoException]
    /\ UNCHANGED <<cfg, shared, remote, reader, writer, rhist, whist,
                   implemented, supported_message_type, message_id_map,
                   recorded, message_id_map_lock>>

\* a connection without the WRITE mode is passed over
WriteMessageSkip ==
    /\ InLoop
    /\ ~WritesTo(modes[connections[call.i]])
    /\ call' = Advance(call)
    /\ UNCHANGED <<cfg, shared, remote, reader, writer, rhist, whist,
                   implemented, supported_message_type, message_id_map,
                   recorded, message_id_map_lock>>

\* connection.write([message]) inside the try: it returns, or it raises
\* and the handler logs and continues
WriteMessageWrite ==
    /\ InLoop
    /\ WritesTo(modes[connections[call.i]])
    /\ LET n == connections[call.i] IN
       \E outcome \in PostOutcomes(n) :
        LET r == Connection_write(modes[n], supported_message_type[n],
                                  <<call.message>>, outcome, 0,
                                  Len(platform[n]) + 1)
            called == [call EXCEPT !.calls = Append(@, n)]
        IN  /\ Len(platform[n]) + r.published <= MaxFeed
            /\ platform' = [platform EXCEPT ![n] = PostDirect(@, r.published)]
            /\ posted_message_ids' = [posted_message_ids EXCEPT
                                         ![n] = RecordPosted(@, r.posted_ids)]
            /\ call' =
                  IF r.raised = NoException THEN Advance(called)
                  ELSE IF Handled(r.raised)
                      THEN Advance([called EXCEPT !.caught = @ \cup {n}])
                  ELSE [called EXCEPT !.raised = r.raised, !.done = TRUE]
    /\ UNCHANGED <<cfg, message_queues, message_queues_lock, min_id, nUser,
                   reader, writer, rhist, whist, implemented,
                   supported_message_type, message_id_map, recorded, message_id_map_lock>>

\* write_message returns (or the exception leaves it): the call is over
WriteMessageReturn ==
    /\ call.op = "write_message"
    /\ call.done
    /\ call' = NoCall
    /\ UNCHANGED <<cfg, shared, remote, reader, writer, rhist, whist,
                   implemented, supported_message_type, message_id_map,
                   recorded, message_id_map_lock>>

WriteMessageStep ==
    \/ WriteMessageBegin \/ WriteMessageSkip \/ WriteMessageWrite
    \/ WriteMessageReturn

\* ---------------------------------- ThreadAwareConnection, called directly
\* the number of (key, destination) entries in the map
LinkCount(map) ==
    Cardinality({e \in (DOMAIN map) \X Names : e[2] \in DOMAIN map[e[1]]})

\* a direct call of store_message_mapping on connection `name`
StoreMessageMapping ==
    \E name \in Names, source_connection \in Names,
       source_id \in SourceIds, dest_id \in DestIds :
        /\ \/ LinkCount(message_id_map) < MaxLinks
           \/ resolve_reply_to_id(message_id_map, name,
                                  source_connection, source_id) # None
        /\ message_id_map' = store_message_mapping(message_id_map, name,
                                    source_connection, source_id, dest_id)
        /\ recorded' = [recorded EXCEPT
                            ![<<source_connection, source_id, name>>] = dest_id]
        /\ call' = [op |-> "store_message_mapping", name |-> name,
                    source_connection |-> source_connection,
                    source_id |-> source_id, dest_id |-> dest_id]
        /\ UNCHANGED <<cfg, shared, remote, reader, writer, rhist, whist,
                       implemented, supported_message_type,
                       message_id_map_lock>>

\* a direct call of resolve_reply_to_id on connection `name`
ResolveReplyToId ==
    \E name \in Names, source_connection \in Names, source_id \in SourceIds :
        /\ call' = [op |-> "resolve_reply_to_id", name |-> name,
                    source_connection |-> source_connection,
                    source_id |-> source_id,
                    result |-> resolve_reply_to_id(message_id_map, name,
                                                   source_connection, source_id)]
        /\ UNCHANGED <<cfg, shared, remote, reader, writer, rhist, whist,
                       implemented, supported_message_type, message_id_map,
                       recorded, message_id_map_lock>>

\* ----------------------------------- a thread-aware connector, written to
\* the source connection of messages handed to write() directly
Source == "source"

\* a thread: a top-level message and a reply to it, both from Source
Start == [id |-> 1, src |-> Source, reply_to_id |-> None,
          visibility |-> PUBLIC, message |-> <<"a">>, media |-> <<>>]
Reply == [id |-> 2, src |-> Source, reply_to_id |-> 1,
          visibility |-> PUBLIC, message |-> <<"a">>, media |-> <<>>]
ThreadInputs == {<<Start>>, <<Reply>>, <<Start, Reply>>, <<Reply, Start>>}

\* _post of a thread-aware connector: a reply is published as a reply to
\* the id its parent has on this connection and is passed over when the
\* parent has none; each published message's id is recorded in the map.
\* Gives the statuses published, their ids and the map left behind.
RECURSIVE ThreadAwarePost(_, _, _, _)
ThreadAwarePost(map, name, messages, next_id) ==
    IF messages = <<>>
        THEN [posted_statuses |-> <<>>, posted_ids |-> <<>>, map |-> map]
    ELSE LET message == Head(messages)
             is_reply == message.reply_to_id # None
             reply_to == IF is_reply
                             THEN resolve_reply_to_id(map, name, message.src,
                                                      message.reply_to_id)
                             ELSE None
         IN  IF is_reply /\ reply_to = None
                 THEN ThreadAwarePost(map, name, Tail(messages), next_id)
                 ELSE LET rest == ThreadAwarePost(
                                      store_message_mapping(map, name,
                                          message.src, message.id, next_id),
                                      name, Tail(messages), next_id + 1)
                      IN  [rest EXCEPT
                              !.posted_statuses =
                                  <<[id |-> message.id,
                                     in_reply_to |-> reply_to]>> \o @,
                              !.posted_ids = <<next_id>> \o @]

\* connection.write(messages) on a thread-aware connection whose platform
\* accepts every status
ThreadWrite ==
    \E n \in Names, messages \in ThreadInputs :
        LET with_content ==
                IF Declares(modes[n], WRITE)
                    THEN messages_with_content(messages,
                                               supported_message_type[n])
                    ELSE <<>>
            r == ThreadAwarePost(message_id_map, n, with_content,
                                 Len(platform[n]) + 1)
        IN  /\ Len(platform[n]) + Len(r.posted_ids) <= MaxFeed
            /\ platform' = [platform EXCEPT
                               ![n] = PostDirect(@, Len(r.posted_ids))]
            /\ posted_message_ids' = [posted_message_ids EXCEPT
                                         ![n] = RecordPosted(@, r.posted_ids)]
            /\ message_id_map' = r.map
            /\ call' = [op |-> "thread_write", name |-> n,
                        messages |-> messages, post_arg |-> with_content,
                        raised |-> NoException,
                        posted_statuses |-> r.posted_statuses,
                        posted_ids |-> r.posted_ids]
            /\ UNCHANGED <<cfg, message_queues, message_queues_lock, min_id,
                           nUser, reader, writer, rhist, whist, implemented,
                           supported_message_type, recorded, message_id_map_lock>>

\* ---------------------------------------------------------- constructors
\* no object: the constructor raised
NoInstance == [constructed |-> FALSE]

\* Optional[int]: None is <<>>, a value v is <<v>>
Absent == <<>>
Given(v) == <<v>>

\* `if not modes:`
NoModes(given_modes) == given_modes = <<>>

\* `if len(set(modes)) != len(modes):`
\* faulty variant: the lengths are not compared
HasDuplicates_Never(given_modes) == FALSE

HasDuplicates(given_modes) ==
    Cardinality(Range(given_modes)) # Len(given_modes)

\* Connection.__init__: the exception it raises, or the object it leaves
Connection_init(name, given_modes) ==
    IF NoModes(given_modes) \/ HasDuplicates(given_modes)
        THEN [raised |-> ValueError, instance |-> NoInstance]
        ELSE [raised |-> NoException,
              instance |-> [constructed |-> TRUE, name |-> name,
                            modes |-> given_modes,
                            posted_message_ids |-> {}]]

\* `if write_rate_limit is not None and write_rate_limit < 1:`
\* faulty variant: `if write_rate_limit and write_rate_limit < 1:`
BadRateLimit_Truthy(limit) ==
    limit # Absent /\ limit[1] # 0 /\ limit[1] < 1

BadRateLimit(limit) == limit # Absent /\ limit[1] < 1

\* Barkr.__init__ on a list of connection names: the exception it raises,
\* or the object it leaves; a write_rate_limit of None is kept as NoLimit
Barkr_init(given_connections, polling_interval, limit) ==
    IF \/ given_connections = <<>>
       \/ polling_interval < 1
       \/ BadRateLimit(limit)
        THEN [raised |-> ValueError, instance |-> NoInstance]
        ELSE [raised |-> NoException,
              instance |-> [constructed |-> TRUE,
                            polling_interval |-> polling_interval,
                            write_rate_limit |->
                                IF limit = Absent THEN NoLimit ELSE limit[1],
                            connections |-> given_connections,
                            message_queues |->
                                [name \in Range(given_connections) |-> <<>>],
                            message_queues_lock |-> "free"]]

\* the arguments constructors are called with
ModeArgs == UNION {[1..k -> {READ, WRITE}] : k \in 0..MaxModes}
ConnectionArgs == UNION {[1..k -> Names] : k \in 0..Len(connections)}
IntArgs == (0 - 1)..MaxArg
LimitArgs == {Absent} \cup {Given(v) : v \in IntArgs}

ConnectionCalls ==
    [op : {"Connection"}, name : Names, modes : ModeArgs, done : {FALSE},
     raised : {NoException}, instance : {NoInstance}]

BarkrCalls ==
    [op : {"Barkr"}, connections : ConnectionArgs, polling_interval : IntArgs,
     write_rate_limit : LimitArgs, done : {FALSE}, raised : {NoException},
     instance : {NoInstance}]

\* Connection(name, modes)
ConnectionInit ==
    /\ call.op = "Connection" /\ ~call.done
    /\ LET r == Connection_init(call.name, call.modes)
       IN  call' = [call EXCEPT !.done = TRUE, !.raised = r.raised,
                                !.instance = r.instance]
    /\ UNCHANGED <<cfg, shared, remote, reader, writer, rhist, whist,
                   implemented, supported_message_type, message_id_map,
                   recorded, message_id_map_lock>>

\* Barkr(connections, polling_interval, write_rate_limit)
BarkrInit ==
    /\ call.op = "Barkr" /\ ~call.done
    /\ LET r == Barkr_init(call.connections, call.polling_interval,
                           call.write_rate_limit)
       IN  call' = [call EXCEPT !.done = TRUE, !.raised = r.raised,
                                !.instance = r.instance]
    /\ UNCHANGED <<cfg, shared, remote, reader, writer, rhist, whist,
                   implemented, supported_message_type, message_id_map,
                   recorded, message_id_map_lock>>

\* Barkr.start: the two wrap_while_true threads interleave freely; a thread
\* whose cycle raised is gone
Next == UserPost \/ ReadStep \/ WriteStep

Spec == Init /\ [][Next]_vars

\* the two threads of start() are scheduled again and again and a connector
\* call returns; the read thread waits for a lock that the write thread
\* releases at the end of each connection.write and during every sleep
Fairness ==
    /\ WF_vars(ReadStep)
    /\ SF_vars(ReadFanOut)
    /\ WF_vars(WriteStep)

\* start() without a rate limit on two connections that both read and
\* write, or on a reader that feeds a writer
StartModes ==
    {[n \in Names |-> {READ, WRITE}],
     [n \in Names |-> IF n = connections[1] THEN {WRITE} ELSE {READ}]}

StartInit ==
    /\ modes \in StartModes
    /\ write_rate_limit = NoLimit
    /\ implemented = [n \in Names |-> Overrides]
    /\ supported_message_type = [n \in Names |-> TEXT_ONLY]
    /\ call = NoCall
    /\ Fresh

FairSpec == StartInit /\ [][Next]_vars /\ Fairness

\* start() with a connector whose fetch may never return: the write thread
\* is scheduled again and again, nothing is assumed of the read thread
StuckSpec == StartInit /\ [][Next]_vars /\ WF_vars(WriteStep)

\* start() on thread-aware connections, both threads scheduled fairly
LockNext == UserPost \/ ReadStep \/ LinkedWriteStep

LockSpec ==
    /\ StartInit /\ [][LockNext]_vars
    /\ WF_vars(ReadStep) /\ SF_vars(ReadFanOut) /\ WF_vars(LinkedWriteStep)

\* start() with write_rate_limit=1, both threads scheduled fairly
RateInit ==
    /\ modes \in StartModes
    /\ write_rate_limit = 1
    /\ implemented = [n \in Names |-> Overrides]
    /\ supported_message_type = [n \in Names |-> TEXT_ONLY]
    /\ call = NoCall
    /\ Fresh

RateSpec == RateInit /\ [][Next]_vars /\ Fairness

\* start() on connections of which the second may be of a class that does
\* not override _fetch
PartialInit ==
    /\ modes \in StartModes
    /\ write_rate_limit = NoLimit
    /\ implemented \in {[n \in Names |-> Overrides],
                        [n \in Names |-> IF n = connections[2]
                                            THEN {"_post"} ELSE Overrides]}
    /\ supported_message_type = [n \in Names |-> TEXT_ONLY]
    /\ call = NoCall
    /\ Fresh

ReadWorker == ReadStep \/ ReadRaise

PartialNext == UserPost \/ ReadWorker \/ WriteStep

PartialSpec ==
    /\ PartialInit /\ [][PartialNext]_vars
    /\ WF_vars(ReadWorker) /\ SF_vars(ReadFanOut) /\ WF_vars(WriteStep)

\* read() and write() called directly, one call at a time, as the tests do
ReadIdle == rpc = "sleep"
WriteIdle == wpc \in {"sleep", "raised"}

SeqRead == WriteIdle /\ ReadStep
SeqWrite == ReadIdle /\ WriteStep

NextSeq == UserPost \/ SeqRead \/ SeqWrite \/ WriteCallAgain

SeqSpec == Init /\ [][NextSeq]_vars

\* the connections a direct caller works with, nothing else running
Unconfigured ==
    /\ modes = [n \in Names |-> {READ, WRITE}]
    /\ write_rate_limit = NoLimit
    /\ implemented = [n \in Names |-> Overrides]
    /\ supported_message_type = [n \in Names |-> TEXT_ONLY]
    /\ Fresh

\* store_message_mapping and resolve_reply_to_id called directly
LinkInit == Unconfigured /\ call = NoCall

LinkNext == StoreMessageMapping \/ ResolveReplyToId

LinkSpec == LinkInit /\ [][LinkNext]_vars

\* has_content called on the messages of a bounded domain
Bodies == UNION {[1..k -> Chars] : k \in 0..MaxBody}
MimeTypes ==
    {<<>>, <<" ">>, <<"image/png">>, <<"text/plain">>, <<" ", "image/png">>}
Contents == {<<>>, <<0>>}
MediaValues == [mime_type : MimeTypes, content : Contents]
MediaLists == UNION {[1..k -> MediaValues] : k \in 0..MaxMedia}
MessageValues ==
    [visibility : MessageVisibility, message : Bodies, media : MediaLists]

ContentInit ==
    /\ Unconfigured
    /\ call \in [op : {"has_content"}, self : MessageValues,
                  supported : MessageType, done : {FALSE}, result : {FALSE}]

HasContentCall ==
    /\ call.op = "has_content"
    /\ ~call.done
    /\ call' = [call EXCEPT !.done = TRUE,
                            !.result = has_content(call.self, call.supported)]
    /\ UNCHANGED <<cfg, shared, remote, reader, writer, rhist, whist,
                   implemented, supported_message_type, message_id_map,
                   recorded, message_id_map_lock>>

ContentNext == HasContentCall

ContentSpec == ContentInit /\ [][ContentNext]_vars

\* Connection.read and Connection.write called directly on one connection
\* of any modes, whose class overrides _fetch and _post or not; outside
\* users post on its platform
ConnInit ==
    /\ \E m \in ModeLists : modes = [n \in Names |-> m]
    /\ write_rate_limit = NoLimit
    /\ \E o \in SUBSET Overrides : implemented = [n \in Names |-> o]
    /\ \E t \in MessageType : supported_message_type = [n \in Names |-> t]
    /\ call = NoCall
    /\ Fresh

TestedPost == UserPost /\ platform'[Tested] # platform[Tested]

ConnNext == TestedPost \/ DirectRead \/ DirectWrite

ConnSpec == ConnInit /\ [][ConnNext]_vars

\* a script that calls read() and write_message() in turn on connections of
\* any modes and capabilities
MessageInit ==
    /\ modes \in [Names -> ModeLists]
    /\ write_rate_limit = NoLimit
    /\ implemented = [n \in Names |-> Overrides]
    /\ \E t \in MessageType : supported_message_type = [n \in Names |-> t]
    /\ call = NoCall
    /\ Fresh

MessageRead == MessageIdle /\ ReadStep
MessageWrite == ReadIdle /\ WriteMessageStep

MessageNext == UserPost \/ MessageRead \/ MessageWrite

MessageSpec == MessageInit /\ [][MessageNext]_vars

\* a script that calls read() again and again on connections of any modes
\* while outside users post
CycleInit ==
    /\ modes \in [Names -> ModeLists]
    /\ write_rate_limit = NoLimit
    /\ implemented = [n \in Names |-> Overrides]
    /\ supported_message_type = [n \in Names |-> TEXT_ONLY]
    /\ call = NoCall
    /\ Fresh

CycleNext == UserPost \/ DirectBarkrRead

CycleSpec == CycleInit /\ [][CycleNext]_vars

\* thread-aware connections written to directly, in any order, while
\* outside users post on their platforms
ThreadInit ==
    /\ modes \in [Names -> {{WRITE}, {READ, WRITE}}]
    /\ write_rate_limit = NoLimit
    /\ implemented = [n \in Names |-> Overrides]
    /\ supported_message_type = [n \in Names |-> TEXT_ONLY]
    /\ call = NoCall
    /\ Fresh

ThreadNext == UserPost \/ ThreadWrite

ThreadSpec == ThreadInit /\ [][ThreadNext]_vars

\* the constructors called on arguments of a bounded domain
CtorInit ==
    /\ Unconfigured
    /\ \/ call \in ConnectionCalls
       \/ call \in BarkrCalls

CtorNext == ConnectionInit \/ BarkrInit

CtorSpec == CtorInit /\ [][CtorNext]_vars

\* ------------------------------------------------------------ properties
Current == connections[wi]
FromSrc(q, src) == SelectSeq(q, LAMBDA m : m.src = src)
IsSuffix(p, q) == Len(p) <= Len(q) /\ SubSeq(q, Len(q) - Len(p) + 1, Len(q)) = p

\* the step of Barkr.write that takes the slice, and the one that cuts the queue
SliceStep == wpc = "slice" /\ wpc' # "slice"
DropStep == wpc = "drop" /\ wpc' # "drop"

\* C1 (no echo): no message that connection E's read() returned is ever
\* appended to E's own queue.
C1_NoEcho ==
    \A n \in Names : \A m \in Range(enq[n]) : m.src # n

C1_Witness ==
    \E n \in Names :
        /\ returned[n] # <<>>
        /\ enq[n] # <<>>
        /\ \E o \in Names : FromSrc(enq[o], n) # <<>>

\* C2 (atomic dequeue): a message appended to a WRITE connection's queue is
\* never removed from the queue without having been passed to
\* Connection.write, whatever the interleaving of the two workers.
C2_NoLoss ==
    \A n \in Names :
        WRITE \in modes[n] =>
            \A m \in Range(enq[n]) :
                m \in Range(message_queues[n]) \cup Range(passed[n])

\* C3 (FIFO drain under a rate limit): with cycles run one at a time and a
\* rate limit r, each write cycle hands the first r messages of a WRITE
\* connection's queue to Connection.write and leaves the rest in place and
\* in order; over the cycles, what was passed followed by what is queued is
\* what was enqueued, in order.
C3_FifoDrain ==
    /\ [](\A n \in Names :
            (/\ WRITE \in modes[n]
             /\ nRaised = 0
             /\ ~(wpc \in {"update", "drop"} /\ Current = n))
            => passed[n] \o message_queues[n] = enq[n])
    /\ [][(DropStep /\ WRITE \in modes[Current] /\ write_rate_limit # NoLimit)
            => /\ wmessages = Take(message_queues[Current], write_rate_limit)
               /\ message_queues'[Current]
                    = Drop(message_queues[Current], write_rate_limit)
               /\ Len(wmessages) <= write_rate_limit
               /\ (wmessages # <<>> => IsSuffix(wmessages, passed[Current]))]_vars

C3_Witness ==
    /\ write_rate_limit = 1
    /\ READ \notin modes["B"] /\ WRITE \notin modes["A"]
    /\ wpc = "sleep"
    /\ Len(enq["B"]) = 2
    /\ Len(passed["B"]) = 1
    /\ Len(message_queues["B"]) = 1

\* C4 (at most once): while no Connection.write has raised, no message is
\* passed twice to the same connection's Connection.write, whatever the
\* interleaving of the two workers.
C4_AtMostOnce ==
    nRaised = 0 => \A n \in Names : NoDup(passed[n])

C4_Witness ==
    /\ nRaised = 0
    /\ write_rate_limit = 1
    /\ \E n \in Names : Len(passed[n]) = 2 /\ message_queues[n] = <<>>

\* the ids the connector returned to calls of n's write that have returned
Acked(n) ==
    published[n] \ (IF wpc = "update" /\ Current = n THEN Range(posted_ids) ELSE {})

\* C5 (id suppression): in every interleaving, a read() on connection E
\* that follows a write() on E returns exactly the fetched items whose id
\* the connector did not return to that (or an earlier) write, in fetch
\* order: an item under an id E's write obtained is not returned.
C5_IdSuppression ==
    [][\A n \in Names :
          min_id'[n] # min_id[n] =>
              /\ \A m \in Range(rmessages') : m.id \notin Acked(n)
              /\ rmessages' =
                   SelectSeq(Fetch(n), LAMBDA m : m.id \notin Acked(n))]_vars

C5_Witness ==
    \E n \in Names :
        /\ rpc = "fanout" /\ connections[ri] = n
        /\ Len(rmessages) = 1
        /\ \E x \in posted_message_ids[n] : x <= min_id[n] /\ x > rmessages[1].id

\* C6 (no repost loop): with A and B both READ and WRITE, cycles run one at a
\* time and every publish returning the ids of what it published, a copy
\* published by a connection is never enqueued for another connection, and
\* a platform never holds two posts of the same original.
C6_NoRepostLoop ==
    nRaised = 0 =>
        /\ \A n \in Names : \A m \in Range(enq[n]) : ~Own(m)
        /\ \A n \in Names : \A i, j \in DOMAIN platform[n] :
              platform[n][i].orig = platform[n][j].orig => i = j

C6_Witness ==
    /\ nRaised = 0
    /\ \A n \in Names : modes[n] = {READ, WRITE}
    /\ \E i \in DOMAIN platform["B"] :
          /\ platform["B"][i].own
          /\ i <= min_id["B"]
    /\ rpc = "sleep" /\ wpc = "sleep"

\* C7 (fan-out completeness): read() is called only on READ connections, and
\* every message a connection's read() returned is appended, in the order
\* returned, at the end of the queue of every other connection, WRITE or
\* not; nothing else is ever appended.
C7_FanOutComplete ==
    /\ \A s \in Names : READ \notin modes[s] => returned[s] = <<>> /\ min_id[s] = 0
    /\ \A n \in Names :
        /\ IsSuffix(message_queues[n], enq[n])
        /\ \A s \in Names \ {n} :
              returned[s] =
                 FromSrc(enq[n], s) \o
                 (IF rpc = "fanout" /\ connections[ri] = s THEN rmessages ELSE <<>>)

C7_Witness ==
    \E n \in Names :
        /\ WRITE \notin modes[n]
        /\ Len(enq[n]) = 2
        /\ rpc = "sleep"

\* C8 (per-cycle write cap): the slice write() takes for a WRITE connection
\* is the first min(rate limit, queue length) messages of its queue when a
\* limit is set, and the entire queue when none is.
C8_SliceIsCap ==
    [][(SliceStep /\ WRITE \in modes[Current])
        => wmessages' =
             Take(message_queues[Current],
                  IF write_rate_limit # NoLimit
                     THEN Min(write_rate_limit, Len(message_queues[Current]))
                     ELSE Len(message_queues[Current]))]_vars

C10_RaisePropagates ==
    raisedAt # 0 =>
        /\ wpc = "raised"
        /\ \A j \in (raisedAt + 1)..Len(connections) :
              connections[j] \notin written \cup droppedFrom

C10_Witness ==
    /\ raisedAt = 1
    /\ WRITE \in modes[connections[2]]
    /\ message_queues[connections[2]] # <<>>

\* a str with a character that is not whitespace
NonBlank(s) == \E i \in DOMAIN s : s[i] \notin Whitespace

\* an attachment with bytes and a MIME type of the allow-list
ValidMedia(m) == m.content # <<>> /\ m.mime_type \in SUPPORTED_MIME_TYPES

\* C18 (has_content): has_content(capability) is true if and only if the
\* visibility is neither private nor direct and the body is non-blank or
\* the capability is text+media and some attached media is valid; for a
\* text-only capability media never makes a blank body publishable.
C18_HasContentIff ==
    (call.op = "has_content" /\ call.done) =>
        LET m == call.self IN
        /\ call.result =
              (/\ m.visibility \notin {PRIVATE, DIRECT}
               /\ \/ NonBlank(m.message)
                  \/ /\ call.supported = TEXT_MEDIA
                     /\ \E i \in DOMAIN m.media : ValidMedia(m.media[i]))
        /\ (call.supported = TEXT_ONLY /\ ~NonBlank(m.message))
              => ~call.result

C18_Witness ==
    /\ call.op = "has_content" /\ call.done
    /\ call.supported = TEXT_ONLY
    /\ call.self.visibility = PUBLIC
    /\ call.self.message = <<" ", "\n">>
    /\ \E i \in DOMAIN call.self.media : ValidMedia(call.self.media[i])
    /\ ~call.result

\* C19 (reply-link map): resolve_reply_to_id of a key on destination D
\* returns the id most recently stored for that key by D, and nothing
\* (None) when D stored none for it, whatever other destinations stored.
C19_ReplyLinkMap ==
    /\ \A k \in DOMAIN recorded :
          resolve_reply_to_id(message_id_map, k[3], k[1], k[2]) = recorded[k]
    /\ call.op = "resolve_reply_to_id" =>
          call.result =
              recorded[<<call.source_connection, call.source_id, call.name>>]

C19_Witness ==
    /\ call.op = "resolve_reply_to_id"
    /\ call.name = "B" /\ call.result = None
    /\ recorded[<<call.source_connection, call.source_id, "A">>] = 2
    /\ \E k \in DOMAIN recorded : k[3] = "B" /\ recorded[k] = 1

\* a step that is a direct call of Connection.read / Connection.write
\* (outside posts are the only other steps, and they count in nUser)
ReadCalled == nUser' = nUser /\ call'.op = "read"
WriteCalled == nUser' = nUser /\ call'.op = "write"

\* a message the claim calls publishable for a capability
Publishable(m, supported) ==
    /\ m.visibility \notin {PRIVATE, DIRECT}
    /\ \/ NonBlank(m.message)
       \/ /\ supported = TEXT_MEDIA
          /\ \E i \in DOMAIN m.media : ValidMedia(m.media[i])

\* C13 (fetch error recovery): when the connector's fetch raises an
\* exception other than NotImplementedError, read() raises nothing, returns
\* an empty list and leaves posted_message_ids unchanged; a read() whose
\* fetch succeeds returns normally, with every outside post made since the
\* last successful fetch, in order, whatever failed in between.
C13_FetchErrorRecovery ==
    [][ReadCalled =>
        LET n == call'.name IN
        /\ (call'.fetch_called /\ call'.outcome = OtherError) =>
              /\ call'.raised = NoException
              /\ call'.result = <<>>
              /\ posted_message_ids' = posted_message_ids
        /\ (call'.fetch_called /\ call'.outcome = NoException) =>
              /\ call'.raised = NoException
              /\ SelectSeq(call'.result, LAMBDA m : ~Own(m))
                    = SelectSeq(Fetch(n), LAMBDA m : ~Own(m))
              /\ posted_message_ids' = posted_message_ids]_vars

C13_Witness ==
    /\ call.op = "read"
    /\ call.after_error
    /\ call.outcome = NoException
    /\ Len(call.result) = 2

\* C15 (capability errors propagate): read() on a connection that declares
\* READ raises NotImplementedError when its class does not implement _fetch
\* or when _fetch itself raises it, never returning an empty list instead;
\* write() with a publishable message on a connection that declares WRITE
\* and whose class does not implement _post raises NotImplementedError.
C15_CapabilityErrorsPropagate ==
    /\ (/\ call.op = "read"
        /\ READ \in modes[call.name]
        /\ \/ "_fetch" \notin implemented[call.name]
           \/ call.outcome = NotImplementedError)
        => call.raised = NotImplementedError
    /\ (/\ call.op = "write"
        /\ WRITE \in modes[call.name]
        /\ "_post" \notin implemented[call.name]
        /\ \E i \in DOMAIN call.messages :
              Publishable(call.messages[i], supported_message_type[call.name]))
        => call.raised = NotImplementedError

C15_Witness ==
    /\ call.op = "read"
    /\ "_fetch" \in implemented[call.name]
    /\ call.outcome = NotImplementedError
    /\ call.raised = NotImplementedError

\* C16 (capability gating): read() on a connection without READ returns an
\* empty list without calling _fetch, write() on a connection without WRITE
\* returns without calling _post and leaves posted_message_ids unchanged;
\* neither raises.
C16_CapabilityGating ==
    [][/\ (ReadCalled /\ READ \notin modes[call'.name]) =>
            /\ call'.result = <<>>
            /\ ~call'.fetch_called
            /\ call'.raised = NoException
            /\ min_id' = min_id
       /\ (WriteCalled /\ WRITE \notin modes[call'.name]) =>
            /\ ~call'.post_called
            /\ call'.raised = NoException
            /\ posted_message_ids' = posted_message_ids
            /\ platform' = platform]_vars

C16_Witness ==
    /\ call.op = "write"
    /\ WRITE \notin modes[call.name]
    /\ "_post" \notin implemented[call.name]
    /\ call.messages = <<Hello, Picture>>
    /\ call.raised = NoException

\* C17 (empty-content filtering): write() calls _post with exactly the
\* messages of its input that are publishable for the connection's
\* capability, in their order; a text-only connection's _post never gets a
\* blank-body message; when none is publishable _post is not called and
\* posted_message_ids is unchanged.
C17_EmptyContentFiltering ==
    [][(WriteCalled /\ WRITE \in modes[call'.name]) =>
        LET supported == supported_message_type[call'.name]
            want == SelectSeq(call'.messages,
                              LAMBDA m : Publishable(m, supported))
        IN  /\ call'.post_called <=> want # <<>>
            /\ call'.post_arg = want
            /\ supported = TEXT_ONLY =>
                  \A m \in Range(call'.post_arg) : NonBlank(m.message)
            /\ want = <<>> =>
                  /\ posted_message_ids' = posted_message_ids
                  /\ platform' = platform]_vars

C17_Witness ==
    /\ call.op = "write"
    /\ supported_message_type[call.name] = TEXT_ONLY
    /\ call.messages = <<Hello, Picture>>
    /\ call.post_called
    /\ call.post_arg = <<Hello>>

Visited ==
    SubSeq(connections, 1, IF call.done THEN Len(connections) ELSE call.i - 1)

\* C11 (write_message isolates failures): when Connection.write raises for
\* one WRITE connection, write_message catches it and raises nothing; every
\* WRITE connection, those after the failing one included, still gets its
\* Connection.write([message]) call, and the failing connection's
\* posted_message_ids are unchanged.
C11_FailureIsolated ==
    /\ [](call.op = "write_message" =>
            /\ call.raised = NoException
            /\ call.caught \subseteq Range(call.calls)
            /\ \A n \in Range(Visited) :
                  WRITE \in modes[n] => n \in Range(call.calls))
    /\ [][(call'.op = "write_message" /\ call.op = "write_message") =>
            \A n \in call'.caught \ call.caught :
                posted_message_ids'[n] = posted_message_ids[n]]_vars

C11_Witness ==
    /\ call.op = "write_message" /\ call.done
    /\ call.message = Hello
    /\ call.caught = {connections[1]}
    /\ call.calls = connections
    /\ platform[connections[2]] # <<>>
    /\ platform[connections[2]][Len(platform[connections[2]])].own

\* C12 (write_message bypasses the queues): write_message calls
\* Connection.write([message]) exactly once on each WRITE connection, in
\* the order of the configuration, never on a connection without WRITE,
\* and leaves every queue unchanged.
C12_BypassesQueues ==
    /\ [](call.op = "write_message" =>
            call.calls = SelectSeq(Visited, LAMBDA n : WRITE \in modes[n]))
    /\ [][(call'.op = "write_message" \/ call.op = "write_message") =>
            message_queues' = message_queues]_vars

C12_Witness ==
    /\ call.op = "write_message" /\ call.done
    /\ modes[connections[1]] = {READ}
    /\ call.calls = <<connections[2]>>
    /\ message_queues[connections[2]] # <<>>
    /\ message_queues[connections[1]] # <<>>

\* a step that is one whole call of read()
BarkrReadCalled == nUser' = nUser /\ call'.op = "barkr_read"

\* the loop of the call reaches the j-th connection: no READ connection
\* before it raised the capability error
Reached(c, j) ==
    \A k \in 1..(j - 1) :
        ~(READ \in modes[connections[k]]
          /\ c.plan[connections[k]] = NotImplementedError)

\* C14 (read isolation in the fan-out): within one cycle of read(), when the
\* fetch of a READ connection fails with an error other than the capability
\* error, no queue receives a message from that connection, every READ
\* connection after it is still read in the same cycle, and what such a
\* connection returns is appended to every queue but its own.
C14_ReadIsolation ==
    [][BarkrReadCalled =>
        \A i \in DOMAIN connections :
            LET n == connections[i] IN
            (READ \in modes[n] /\ Reached(call', i)
                               /\ call'.plan[n] = OtherError) =>
                /\ n \in Range(call'.calls)
                /\ \A o \in Names :
                      FromSrc(message_queues'[o], n)
                          = FromSrc(message_queues[o], n)
                /\ \A j \in (i + 1)..Len(connections) :
                      LET m == connections[j] IN
                      (READ \in modes[m] /\ Reached(call', j)) =>
                          /\ m \in Range(call'.calls)
                          /\ call'.plan[m] = NoException =>
                                \A o \in Names \ {m} :
                                    FromSrc(message_queues'[o], m)
                                        = FromSrc(message_queues[o], m) \o
                                          ConnectionRead(posted_message_ids[m],
                                                         Fetch(m))]_vars

C14_Witness ==
    /\ call.op = "barkr_read"
    /\ call.plan[connections[1]] = OtherError
    /\ call.plan[connections[2]] = NoException
    /\ call.calls = connections
    /\ call.raised = NoException
    /\ Len(platform[connections[1]]) > min_id[connections[1]]
    /\ message_queues[connections[2]] = <<>>
    /\ message_queues[connections[1]] # <<>>

\* a step that is one whole call of write() on a thread-aware connection
ThreadWriteCalled == nUser' = nUser /\ call'.op = "thread_write"

\* the id destination d has recorded for the message (src, id), or None
RecordedId(map, d, src, id) ==
    IF <<src, id>> \in DOMAIN map /\ d \in DOMAIN map[<<src, id>>]
        THEN map[<<src, id>>][d] ELSE None

\* the i-th message handed to _post is a reply whose parent is not posted
\* earlier in the same call
ReplyToOlder(arg, i) ==
    /\ arg[i].reply_to_id # None
    /\ \A j \in 1..(i - 1) :
          ~(arg[j].src = arg[i].src /\ arg[j].id = arg[i].reply_to_id)

\* the statuses a call published for the message with source id `id`
StatusesOf(c, id) == SelectSeq(c.posted_statuses, LAMBDA st : st.id = id)

DroppedIds(c, ids) ==
    {c.fetched[i].id : i \in DOMAIN c.fetched} \cap ids

\* C23 as stated (one-shot suppression): an id that read() dropped because
\* it is in posted_message_ids is no longer in the set after that read().
C23_OneShotSuppression ==
    [][ReadCalled =>
        \A X \in DroppedIds(call', posted_message_ids[call'.name]) :
            X \notin posted_message_ids'[call'.name]]_vars

\* C23 as amended (lasting suppression): read() leaves posted_message_ids
\* as it is; an id it dropped because it is in the set is still in the set
\* after the read, and the message is not among those returned.
C23_SuppressionLasts ==
    [][ReadCalled =>
        /\ posted_message_ids' = posted_message_ids
        /\ \A X \in DroppedIds(call', posted_message_ids[call'.name]) :
              /\ X \in posted_message_ids'[call'.name]
              /\ \A i \in DOMAIN call'.result : call'.result[i].id # X]_vars

\* a read() fetched the connection's own post and an outside post, dropped
\* the former and returned the latter; the id is still in the set
C23_Witness ==
    /\ call.op = "read"
    /\ Len(call.fetched) = 2
    /\ Len(call.result) = 1
    /\ DroppedIds(call, posted_message_ids[call.name]) # {}

\* the read worker waits for the queue lock
ReadWaits == rpc = "fanout" /\ message_queues_lock # "free"

\* the write worker is gone: a cycle raised
WriteGone == wpc = "raised"

\* C24 (scheduler): the read cycle and the write cycle run on two workers,
\* each invoked again and again: read() is invoked infinitely often, and so
\* is write() unless a write cycle raises; the only thing one worker ever
\* waits for from the other is the queue lock.
C24_Scheduler ==
    /\ []<><<ReadBegin>>_vars
    /\ \/ []<><<WriteBegin>>_vars
       \/ <>[]WriteGone
    /\ [](ENABLED ReadStep <=> ~ReadWaits)
    /\ [](ENABLED WriteStep <=> ~WriteGone)

\* both workers are in a later cycle: B was read and written to before
C24_Witness ==
    /\ rpc = "loop" /\ ri = 1
    /\ returned["B"] # <<>>
    /\ wpc = "max" /\ wi = 1
    /\ published["B"] # {}

\* C25 (orchestrator construction): Barkr(...) raises the configuration
\* error and leaves no instance exactly when the connection list is empty,
\* the polling interval is below 1 or a rate limit is given and is below 1;
\* without a rate limit, or with one of at least 1, and the rest valid, the
\* instance has one empty queue per connection name.
C25_BarkrConstruction ==
    (call.op = "Barkr" /\ call.done) =>
        LET rejected == \/ Len(call.connections) = 0
                        \/ call.polling_interval < 1
                        \/ \E v \in IntArgs :
                              call.write_rate_limit = <<v>> /\ v < 1
        IN  /\ rejected =>
                /\ call.raised = ValueError
                /\ ~call.instance.constructed
            /\ ~rejected =>
                /\ call.raised = NoException
                /\ call.instance.constructed
                /\ DOMAIN call.instance.message_queues
                       = Range(call.connections)
                /\ \A name \in Range(call.connections) :
                      call.instance.message_queues[name] = <<>>

\* a Barkr constructed without a rate limit on two connections
C25_Witness ==
    /\ call.op = "Barkr" /\ call.done
    /\ call.write_rate_limit = <<>>
    /\ call.polling_interval = 1
    /\ call.instance.constructed
    /\ call.instance.message_queues = [n \in Names |-> <<>>]

\* C26 (endpoint construction): Connection(name, modes) raises the
\* configuration error when modes is empty or names a mode twice; an
\* instance that was constructed has a non-empty mode list without
\* duplicates and an empty posted_message_ids.
C26_ConnectionConstruction ==
    (call.op = "Connection" /\ call.done) =>
        LET invalid == \/ Len(call.modes) = 0
                       \/ \E i, j \in DOMAIN call.modes :
                             i # j /\ call.modes[i] = call.modes[j]
        IN  /\ invalid =>
                /\ call.raised = ValueError
                /\ ~call.instance.constructed
            /\ call.instance.constructed =>
                /\ call.raised = NoException
                /\ call.instance.modes = call.modes
                /\ Len(call.instance.modes) > 0
                /\ NoDup(call.instance.modes)
                /\ call.instance.posted_message_ids = {}

\* a list naming READ twice was rejected
C26_Witness ==
    /\ call.op = "Connection" /\ call.done
    /\ call.modes = <<READ, READ>>
    /\ call.raised = ValueError
    /\ ~call.instance.constructed

\* C27 (id suppression needs no extra synchronization): in every
\* interleaving of the two workers, a message that connection E published
\* under id X is never returned by E's read(), also when the fetch sees the
\* post after _post returned and before write() recorded the ids.
C27_NoOwnPostRead ==
    \A n \in Names : \A m \in Range(returned[n]) : m.id \notin published[n]

\* the write worker is inside connection.write: _post has been called and
\* write has not returned
InConnectionWrite == wpc = "update"

\* C28 (the lock is not held around connector I/O): whenever the write
\* worker is inside connection.write the queue lock is free, so the read
\* worker's append never waits for a publish call.
C28_LockFreeDuringWrite ==
    InConnectionWrite => (message_queues_lock = "free" /\ ~ReadWaits)

\* the read worker is inside the fetch of connection e, which has not
\* returned
InFetch(e) == rpc = "loop" /\ connections[ri] = e /\ READ \in modes[e]

\* C29 (a stuck fetch does not delay the write side): while read() is inside
\* a fetch the read worker holds no lock and every step of the write worker
\* is possible; however long fetches take, write() is invoked again and
\* again unless a write cycle raises.
C29_WriteNotDelayed ==
    /\ [](\A e \in Names :
            InFetch(e) => /\ message_queues_lock # "read"
                          /\ ENABLED WriteStep \/ WriteGone)
    /\ \/ []<><<WriteBegin>>_vars
       \/ <>[]WriteGone

\* the write worker is inside connection.write on A, publishing what was
\* read from B, while the next fetch of B has not returned
C29_Witness ==
    /\ InFetch("B")
    /\ wpc = "update" /\ connections[wi] = "A"
    /\ published["A"] # {}

\* C30 as stated (a stuck fetch delays only its own endpoint): while the
\* fetch of E has not returned, another READ connection can be read.
C30_OthersStillRead ==
    \A e \in Names, o \in Names :
        (e # o /\ InFetch(e) /\ READ \in modes[o]) =>
            ENABLED (ReadStep /\ returned'[o] # returned[o])

\* C30 as amended (a stuck fetch holds the read worker): while the fetch
\* of E has not returned, read() reads no other connection and fans out no
\* message of another connection; the loop goes on only when that fetch
\* returns or fails.
C30_ReadWaitsForFetch ==
    [][\A e \in Names :
          InFetch(e) =>
              \A o \in Names \ {e} :
                  /\ returned'[o] = returned[o]
                  /\ min_id'[o] = min_id[o]
                  /\ \A q \in Names :
                        FromSrc(enq'[q], o) = FromSrc(enq[q], o)]_vars

\* the loop is held at A, whose fetch has not returned, while B, a READ
\* connection, has a post that no read has fetched
C30_Witness ==
    /\ InFetch("A")
    /\ READ \in modes["B"]
    /\ Len(platform["B"]) > min_id["B"]
    /\ returned["B"] = <<>>

\* C31 (lock discipline): a step that changes message_queues, the append of
\* read() or the cut of write(), is taken with the lock acquired by that
\* step and released at its end, never while the other worker holds the
\* lock; the lock is held only by the write worker between its slice and the
\* return of connection.write, and it is free after connection.write raised.
C31_LockDiscipline ==
    /\ [][message_queues' # message_queues =>
            /\ message_queues_lock = "free"
            /\ message_queues_lock' = "free"
            /\ (rpc = "fanout" /\ writer' = writer) \/ (wpc = "drop" /\ reader' = reader)]_vars
    /\ [](message_queues_lock \in {"free", "write"})
    /\ [](message_queues_lock = "write" <=> wpc = "update")
    /\ [](wpc = "raised" => message_queues_lock = "free")

\* read() is at its append, waiting for the lock the write worker holds
\* inside connection.write, after an earlier append was made
C31_Witness ==
    /\ rpc = "fanout" /\ rmessages # <<>>
    /\ message_queues_lock = "write"
    /\ \E n \in Names : enq[n] # <<>>

\* the read thread has ended with an exception
ReadGone == rpc = "raised"

\* read() has called connection.read() on a connection whose _fetch is the
\* base class's
FetchUnimplemented ==
    /\ rpc = "loop"
    /\ READ \in modes[connections[ri]]
    /\ "_fetch" \notin implemented[connections[ri]]

\* C32 (an error ends only the offending worker): once write() raised in the
\* write worker, write() is never run again, nothing more is passed to a
\* connection or published and every queue only grows, while read() keeps
\* being run; a NotImplementedError of a connection's read ends the read
\* worker, after which nothing more is read or appended, while write() keeps
\* being run. Each worker runs its cycle again and again unless it is the
\* one that raised.
C32_OnlyOffenderEnds ==
    /\ [][WriteGone =>
            /\ WriteGone'
            /\ passed' = passed /\ published' = published
            /\ posted_message_ids' = posted_message_ids
            /\ \A n \in Names : IsPrefix(message_queues[n], message_queues'[n])]_vars
    /\ [][(FetchUnimplemented /\ reader' # reader) => ReadGone']_vars
    /\ [][ReadGone =>
            /\ ReadGone'
            /\ returned' = returned /\ enq' = enq /\ min_id' = min_id]_vars
    /\ \/ []<><<ReadBegin>>_vars
       \/ <>[]ReadGone
    /\ \/ []<><<WriteBegin>>_vars
       \/ <>[]WriteGone

\* write() raised on a connection and read() has since run a cycle that
\* appended to that connection's queue a message no write will be given
C32_Witness ==
    /\ WriteGone /\ rpc = "sleep"
    /\ LET n == connections[raisedAt] IN
          /\ Len(enq[n]) > Len(passed[n])
          /\ Len(message_queues[n]) > Len(failed[n])

\* the k-th message appended to n's queue has been given to n's write
Delivered(n, k) == Len(enq[n]) >= k /\ enq[n][k] \in Range(passed[n])

\* C33 (eventual delivery): under fair scheduling of the two workers, the
\* k-th message appended to the queue of a WRITE connection is eventually
\* passed to that connection's write, unless a Connection.write raises.
C33_EventualDelivery ==
    \A n \in Names : \A k \in 1..MaxUserPosts :
        (WRITE \in modes[n] /\ Len(enq[n]) >= k)
            ~> (nRaised > 0 \/ Delivered(n, k))

\* C34 (frame of posted_message_ids): the set of a connection changes only
\* in that connection's write, after _post returned, and then becomes the
\* old set together with exactly the ids _post returned, one for each
\* message with content and none for the others; a write that calls no
\* _post, a write whose _post raised, read() and every step made for another
\* connection leave it as it was.
C34_PostedIdsFrame ==
    /\ [][\A n \in Names :
            posted_message_ids'[n] # posted_message_ids[n] =>
                /\ InConnectionWrite /\ Current = n /\ ~InConnectionWrite']_vars
    /\ [][(InConnectionWrite /\ ~InConnectionWrite') =>
            /\ posted_message_ids'[Current] =
                  posted_message_ids[Current] \cup Range(posted_ids)
            /\ Range(posted_ids) \subseteq published[Current]
            /\ Len(posted_ids) = Len(WithContent(wmessages))]_vars

\* a write was given a message with content and one without, and recorded
\* one id, added to an id recorded by an earlier write
C34_Witness ==
    /\ wpc = "drop"
    /\ Len(wmessages) = 2 /\ Len(posted_ids) = 1
    /\ Range(posted_ids) \subseteq posted_message_ids[Current]
    /\ \E n \in Names \ {Current} : posted_message_ids[n] # {}

\* write() returns: the cut of the last connection's queue
CycleEnd == DropStep /\ wpc' = "sleep"

\* C35 (queues of connections without WRITE are discarded): write() never
\* passes a message to the write of a connection without the WRITE mode and
\* nothing is published there, yet its cut removes from the front of that
\* queue what a slice would have taken: the whole queue without a rate
\* limit, the first rate-limit messages otherwise. With cycles run one at
\* a time and no rate limit every queue is empty when write() returns.
C35_NonWritersDiscarded ==
    /\ [](\A n \in Names :
            WRITE \notin modes[n] =>
                /\ passed[n] = <<>> /\ published[n] = {}
                /\ posted_message_ids[n] = {}
                /\ \A i \in DOMAIN platform[n] : ~platform[n][i].own)
    /\ [][(DropStep /\ WRITE \notin modes[Current]) =>
            message_queues'[Current] =
                Drop(message_queues[Current],
                     IF write_rate_limit # NoLimit
                        THEN write_rate_limit
                        ELSE Len(message_queues[Current]))]_vars
    /\ [][(CycleEnd /\ write_rate_limit = NoLimit) =>
            \A n \in Names : message_queues'[n] = <<>>]_vars

\* with a rate limit of 1 a cycle has cut one of the two messages queued for
\* a connection without WRITE; nothing was passed to it
C35_Witness ==
    \E n \in Names :
        /\ WRITE \notin modes[n]
        /\ write_rate_limit = 1
        /\ Len(enq[n]) = 2
        /\ message_queues[n] = <<enq[n][2]>>
        /\ wpc = "sleep"

\* C36 (an empty queue is not written): when the queue of a connection is
\* empty as write() takes its slice, connection.write is not called for it,
\* nothing is published, and the queue is left as it is; the cut of an empty
\* queue leaves it empty.
C36_EmptyQueueNoWrite ==
    /\ [][(SliceStep /\ message_queues[Current] = <<>>) =>
            /\ wmessages' = <<>>
            /\ written' = written /\ passed' = passed
            /\ published' = published /\ platform' = platform
            /\ posted_message_ids' = posted_message_ids
            /\ message_queues' = message_queues
            /\ wpc' = "drop"]_vars
    /\ [][(DropStep /\ message_queues[Current] = <<>>) =>
            message_queues'[Current] = <<>>]_vars

\* everything queued for a WRITE connection was written by earlier cycles;
\* this cycle found its queue empty and took an empty slice
C36_Witness ==
    /\ wpc = "drop"
    /\ WRITE \in modes[Current]
    /\ message_queues[Current] = <<>> /\ wmessages = <<>>
    /\ Current \notin written
    /\ enq[Current] # <<>> /\ passed[Current] = enq[Current]

\* the entries of the table: (key, destination) pairs
Entries(map) == {e \in (DOMAIN map) \X Names : e[2] \in DOMAIN map[e[1]]}

\* a step that is a direct call of store_message_mapping / resolve_reply_to_id
StoreCalled == call' # call /\ call'.op = "store_message_mapping"
ResolveCalled == call' # call /\ call'.op = "resolve_reply_to_id"

\* C37 (a record touches one entry of the one shared table): when
\* connection D records dest_id for the key (S, I), afterwards D's entry
\* under (S, I) is dest_id; every other entry of the table, of another
\* connection under (S, I) or under another key, is what it was, and no
\* entry other than D's under (S, I) appears.
C37_RecordTouchesOneEntry ==
    [][message_id_map' # message_id_map \/ StoreCalled =>
        LET key == <<call'.source_connection, call'.source_id>>
            own == <<key, call'.name>>
        IN  /\ call'.op = "store_message_mapping"
            /\ own \in Entries(message_id_map')
            /\ message_id_map'[key][call'.name] = call'.dest_id
            /\ Entries(message_id_map') = Entries(message_id_map) \cup {own}
            /\ \A e \in Entries(message_id_map) \ {own} :
                  message_id_map'[e[1]][e[2]] = message_id_map[e[1]][e[2]]]_vars

\* A and B mirrored the same source message and each holds its own id
C37_Witness ==
    \E key \in DOMAIN message_id_map :
        /\ DOMAIN message_id_map[key] = {"A", "B"}
        /\ message_id_map[key]["A"] # message_id_map[key]["B"]
        /\ call.op = "store_message_mapping"
        /\ <<call.source_connection, call.source_id>> = key

\* C38 (entries are never removed): no step removes an entry of the table,
\* every (key, destination) pair that was ever recorded is present, and
\* resolve_reply_to_id leaves the table as it is.
C38_EntriesNeverRemoved ==
    /\ [][Entries(message_id_map) \subseteq Entries(message_id_map')]_vars
    /\ [](\A k \in DOMAIN recorded :
            recorded[k] # None =>
                <<<<k[1], k[2]>>, k[3]>> \in Entries(message_id_map))
    /\ [][ResolveCalled => message_id_map' = message_id_map]_vars

\* the table is full, with entries under two keys, and a resolve that found
\* nothing for its destination has just returned
C38_Witness ==
    /\ Cardinality(Entries(message_id_map)) = MaxLinks
    /\ Cardinality(DOMAIN message_id_map) >= 2
    /\ call.op = "resolve_reply_to_id" /\ call.result = None

\* p keeps the order of q: two elements of p, in that order, are at two
\* positions of q in that order
KeepsOrder(p, q) ==
    /\ Range(p) \subseteq Range(q)
    /\ \A i, j \in DOMAIN p :
          i < j => \E a, b \in DOMAIN q : a < b /\ q[a] = p[i] /\ q[b] = p[j]

\* the messages of source s that n's write was given and handed to _post
PostedFrom(n, s) == SelectSeq(FromSrc(passed[n], s), HasContent)

\* C39 (per-source order end to end): in every interleaving of the two
\* workers, the messages of one source that a destination's write received,
\* and those of them it handed to _post, are in the order in which the
\* source's read() returned them, over all read cycles and write batches.
C39_PerSourceOrder ==
    \A n \in Names : \A s \in Names :
        /\ KeepsOrder(FromSrc(passed[n], s), returned[s])
        /\ KeepsOrder(FromSrc(message_queues[n], s), returned[s])
        /\ KeepsOrder(PostedFrom(n, s), returned[s])

\* two messages read from one source were written to a destination in two
\* batches of a rate limit of 1, and both were published
C39_Witness ==
    \E n \in Names : \E s \in Names \ {n} :
        /\ write_rate_limit = 1
        /\ Len(returned[s]) = 2
        /\ PostedFrom(n, s) = returned[s]
        /\ Cardinality(published[n]) = 2

====
